---- MODULE Spec2Model ----
(***************************************************************************)
(* Candidate pipeline orchestration of apota/vetterati.                    *)
(*                                                                         *)
(* Two services are modelled, each with its own database:                  *)
(*   - workflow-service: WorkflowService (create_workflow,                 *)
(*     update_workflow, create_template) and StateMachineService           *)
(*     (transition_state).  Every request runs in its own AsyncSession;    *)
(*     a request is a process whose steps are the segments between the     *)
(*     awaits of the handler.  InterviewService (create_interview,         *)
(*     schedule_interview, start_interview, complete_interview,            *)
(*     cancel_interview, update_interview) runs in the same way.           *)
(*   - notification-service: NotificationService and the background        *)
(*     task process_notification of main.py.                               *)
(***************************************************************************)
EXTENDS Integers, Sequences, FiniteSets, Bags, TLC

(***************************************************************************)
(* Bounds of the model.                                                    *)
(***************************************************************************)
MaxWorkflows == 2
MaxPairs == 1
MaxTemplates == 1
MaxHistory == 4
MaxProcs == 2
MaxNotifications == 1
MaxNotificationTemplates == 1
MaxInterviews == 1
MaxTasks == 1
MaxUsers == 1
MaxRuns == 2
MaxTicks == 3
MaxRetryCount == 6
MaxUpdates == 1
MaxRecipients == 2
TickSeconds == 60

WIds == 1..MaxWorkflows
Pairs == 1..MaxPairs
TIds == 1..MaxTemplates
Procs == 1..MaxProcs

None == "null"
NoTemplate == 0

(***************************************************************************)
(* Transition rules.  A rule of the source is a dict {'trigger', 'source', *)
(* 'dest'} whose 'source' is either one string or a list of strings:       *)
(* single = TRUE is the one-string form, source then holds that string.    *)
(***************************************************************************)
Rule(t, single, src, d) == [trigger |-> t, single |-> single, source |-> src, dest |-> d]

default_transitions ==
  << Rule("screen", TRUE, {"applied"}, "screening"),
     Rule("schedule_phone", TRUE, {"screening"}, "phone_interview"),
     Rule("pass_phone", TRUE, {"phone_interview"}, "technical_interview"),
     Rule("pass_technical", TRUE, {"technical_interview"}, "final_interview"),
     Rule("pass_final", TRUE, {"final_interview"}, "reference_check"),
     Rule("references_clear", TRUE, {"reference_check"}, "offer_extended"),
     Rule("accept_offer", TRUE, {"offer_extended"}, "offer_accepted"),
     Rule("onboard", TRUE, {"offer_accepted"}, "hired"),
     Rule("reject", FALSE,
          {"screening", "phone_interview", "technical_interview",
           "final_interview", "reference_check"}, "rejected"),
     Rule("decline_offer", TRUE, {"offer_extended"}, "rejected"),
     Rule("withdraw", FALSE,
          {"applied", "screening", "phone_interview", "technical_interview",
           "final_interview"}, "withdrawn"),
     Rule("reconsider", TRUE, {"rejected"}, "screening") >>

(* The custom template of the specification's scenario A. *)
ScenarioATransitions ==
  << Rule("screen", TRUE, {"applied"}, "screening"),
     Rule("extend_offer", TRUE, {"screening"}, "offer"),
     Rule("accept", TRUE, {"offer"}, "hired"),
     Rule("reject", FALSE, {"screening", "offer"}, "rejected") >>

(* A custom template whose terminal state has a name of its own. *)
ArchiveTransitions ==
  << Rule("screen", TRUE, {"applied"}, "screening"),
     Rule("archive", FALSE, {"applied", "screening"}, "archived") >>

(* A custom template with two rules for the trigger screen that share the *)
(* source state applied.                                                  *)
TieTransitions ==
  << Rule("screen", TRUE, {"applied"}, "screening"),
     Rule("screen", FALSE, {"applied", "screening"}, "rejected") >>

(* The values a stored WorkflowTemplate.transitions column takes in the   *)
(* model: hasKey = FALSE is a JSON object without a 'transitions' key.    *)
TemplateChoices ==
  { [stored |-> TRUE, hasKey |-> TRUE, rules |-> ScenarioATransitions],
    [stored |-> TRUE, hasKey |-> TRUE, rules |-> ArchiveTransitions],
    [stored |-> TRUE, hasKey |-> TRUE, rules |-> TieTransitions],
    [stored |-> TRUE, hasKey |-> FALSE, rules |-> << >>] }

NoTpl == [stored |-> FALSE, hasKey |-> FALSE, rules |-> << >>]

(***************************************************************************)
(* Python's `a in b` for two strings is the substring test.  The pairs of  *)
(* distinct state names of the model where the first is a substring of     *)
(* the second.                                                             *)
(***************************************************************************)
ProperSubstrings ==
  { <<"offer", "offer_extended">>, <<"offer", "offer_accepted">> }

IsSubstring(a, b) == a = b \/ <<a, b>> \in ProperSubstrings

(* state_machine_service.py:85-86 *)
SourceMatches(cs, rule) ==
  IF rule.single
    THEN \E s \in rule.source : cs = s \/ IsSubstring(cs, s)
    ELSE cs \in rule.source

RuleMatches(rule, action, cs) == rule.trigger = action /\ SourceMatches(cs, rule)

MinOf(S) == CHOOSE x \in S : \A y \in S : x <= y

(* Index of the first matching rule, 0 when there is none (lines 83-88). *)
FindTransition(transitions, action, cs) ==
  LET hits == { i \in 1..Len(transitions) : RuleMatches(transitions[i], action, cs) }
  IN  IF hits = {} THEN 0 ELSE MinOf(hits)

(* state_machine_service.py:221-237 *)
CalculateProgress(s) ==
  CASE s = "applied" -> 10
    [] s = "screening" -> 20
    [] s = "phone_interview" -> 35
    [] s = "technical_interview" -> 50
    [] s = "final_interview" -> 70
    [] s = "reference_check" -> 85
    [] s = "offer_extended" -> 95
    [] s = "offer_accepted" -> 99
    [] s = "hired" -> 100
    [] s = "rejected" -> 100
    [] s = "withdrawn" -> 100
    [] OTHER -> 0

(* state_machine_service.py:120 *)
CompletionStates == {"hired", "rejected", "withdrawn"}

WorkflowStatus == {"active", "completed", "cancelled", "on_hold"}

(***************************************************************************)
(* State of the workflow service.                                          *)
(*   templates  workflow_templates table: id -> transitions column         *)
(*   workflows  candidate_workflows table: id -> row                       *)
(*   srecords   workflow_states table, per workflow, in insertion order    *)
(*   req        the request each process is serving: its position (pc),    *)
(*              the row its session loaded (snap) and its arguments        *)
(*   last       the service call that returned last: the operation, the    *)
(*              workflow id it was given and what it returned              *)
(***************************************************************************)
VARIABLES templates, workflows, srecords, req, last

wfVars == <<templates, workflows, srecords, req, last>>

(***************************************************************************)
(* State of the notification service.                                      *)
(*   notifs   notifications table: id -> row                               *)
(*   prefs    notification_preferences table: user -> row                  *)
(*   nlogs    notification_logs table, per notification, in insertion      *)
(*            order                                                        *)
(*   queue    process_notification tasks added to BackgroundTasks and not  *)
(*            yet started, per notification                                *)
(*   sending  process_notification tasks awaiting                          *)
(*            dispatcher.send_notification, per notification               *)
(*   now      datetime.utcnow(), in seconds                                *)
(*   ntemplates  notification_templates table: id -> row                   *)
(*   render   the TemplateRenderResponse of the render_template call that  *)
(*            returned last                                                *)
(*   nresp    the response of the update, delete or bulk request that      *)
(*            ended last                                                   *)
(***************************************************************************)
VARIABLES notifs, prefs, nlogs, queue, sending, now, ntemplates, render, nresp

tplVars == <<ntemplates, render>>

ntVars ==
  <<notifs, prefs, nlogs, queue, sending, now, ntemplates, render, nresp>>

(***************************************************************************)
(* State of the interviews of the workflow service.                        *)
(*   interviews  interview_steps table: id -> row                          *)
(*   ireq        the InterviewService call each process is serving: its    *)
(*               position (pc), the operation and the row its session      *)
(*               loaded (snap)                                             *)
(*   ilast       the InterviewService call that returned last              *)
(***************************************************************************)
VARIABLES interviews, ireq, ilast

ivVars == <<interviews, ireq, ilast>>

(***************************************************************************)
(* Background tasks of the workflow service (main.py:62, 167-172,          *)
(* 217-222).                                                               *)
(*   tasks    the notification tasks the endpoints added with              *)
(*            background_tasks.add_task and that have not run yet          *)
(*   sendlog  what the task that ran last logged for its SMTP attempts     *)
(***************************************************************************)
VARIABLES tasks, sendlog

bgVars == <<tasks, sendlog>>

NoRow == [pair |-> 0, template |-> NoTemplate, current_state |-> None,
          previous_state |-> None, status |-> None, progress |-> 0,
          history |-> << >>, completed_at |-> FALSE]

NoArg == [pair |-> 0, template |-> NoTemplate, state |-> None, status |-> None]

NoCall == [op |-> None, wid |-> 0, ret |-> None]

Idle == [pc |-> "idle", wid |-> 0, action |-> None, snap |-> NoRow,
         exitIdx |-> 0, dest |-> None, arg |-> NoArg]

Triggers ==
  { default_transitions[i].trigger : i \in 1..Len(default_transitions) }
    \cup { ScenarioATransitions[i].trigger : i \in 1..Len(ScenarioATransitions) }
    \cup { ArchiveTransitions[i].trigger : i \in 1..Len(ArchiveTransitions) }

(* Inputs of create_workflow and update_workflow (CandidateWorkflowCreate, *)
(* CandidateWorkflowUpdate): the caller may name any state and status.     *)
CreateStates == {"applied", "offer"}
CreateStatuses == {"active", "on_hold"}
UpdateStates == {None, "hired"}
UpdateStatuses == {None, "completed", "cancelled"}

Exists(w) == workflows[w] # NoRow

(* state_machine_service.py:72-77 *)
ApplicableTransitions(row) ==
  IF row.template = NoTemplate
    THEN default_transitions
    ELSE IF templates[row.template].hasKey
           THEN templates[row.template].rules
           ELSE default_transitions

(* The attributes of a loaded row the session holds as changed.  An       *)
(* assignment marks an attribute; state_history is a plain JSON column    *)
(* (models.py:42) and `workflow.state_history.append(...)` changes the     *)
(* loaded list in place, which marks nothing: the list is written only    *)
(* when `workflow.state_history = []` was assigned first, that is when    *)
(* the loaded history was empty.                                          *)
Dirty(f, snap, new) ==
  IF f = "history"
    THEN snap.history = << >> /\ new.history # << >>
    ELSE new[f] # snap[f]

(* A commit writes the attributes the session holds as changed on the     *)
(* row it loaded; the other columns keep what the database holds.         *)
CommitRow(dbrow, snap, new) ==
  [f \in DOMAIN dbrow |-> IF Dirty(f, snap, new) THEN new[f] ELSE dbrow[f]]

(* A task of BackgroundTasks: the function added and its arguments         *)
(* (main.py:168-172 and 218-222).                                          *)
WorkflowTask(w, action) ==
  [fn |-> "send_workflow_notification", id |-> w, arg |-> action]

InterviewTask(i) ==
  [fn |-> "send_interview_notification", id |-> i, arg |-> "scheduled"]

(* background_tasks.add_task *)
AddTask(t) ==
  /\ tasks' = tasks (+) SetToBag({t})
  /\ UNCHANGED sendlog

InitBackground ==
  /\ tasks = EmptyBag
  /\ sendlog = None

(* What the SMTP server of _send_email_notification does (lines 144-151):  *)
(* the message is accepted, or a call raises.                              *)
SmtpOutcomes == {"accepted", "raised"}

(* notification_service.py:29-64 and 120-156.  The task reads mock data,   *)
(* never the database; _send_email_notification catches what SMTP raises   *)
(* and logs it, and send_workflow_notification catches everything else.    *)
SendWorkflowNotification ==
  /\ \E t \in BagToSet(tasks), o \in SmtpOutcomes :
       /\ t.fn = "send_workflow_notification"
       /\ tasks' = tasks (-) SetToBag({t})
       /\ sendlog' = IF o = "accepted" THEN "Email sent" ELSE "Error sending email"
  /\ UNCHANGED <<wfVars, ntVars, ivVars>>

(* notification_service.py:66-101 *)
SendInterviewNotification ==
  /\ \E t \in BagToSet(tasks), o \in SmtpOutcomes :
       /\ t.fn = "send_interview_notification"
       /\ tasks' = tasks (-) SetToBag({t})
       /\ sendlog' = IF o = "accepted" THEN "Email sent" ELSE "Error sending email"
  /\ UNCHANGED <<wfVars, ntVars, ivVars>>

InitWorkflow ==
  /\ templates = [t \in TIds |-> NoTpl]
  /\ workflows = [w \in WIds |-> NoRow]
  /\ srecords = [w \in WIds |-> << >>]
  /\ req = [p \in Procs |-> Idle]
  /\ last = NoCall

(* Call op of process p returns r (or raises) and the request ends. *)
Finish(p, op, r) ==
  /\ req' = [req EXCEPT ![p] = Idle]
  /\ last' = [op |-> op, wid |-> req[p].wid, ret |-> r]

(* workflow_service.py:186-215 create_template: stored as given. *)
CreateTemplate(p) ==
  /\ req[p].pc = "idle"
  /\ \E t \in TIds, c \in TemplateChoices :
       /\ templates[t] = NoTpl
       /\ \A u \in TIds : u < t => templates[u] # NoTpl
       /\ templates' = [templates EXCEPT ![t] = c]
  /\ last' = [op |-> "create_template", wid |-> 0, ret |-> "template"]
  /\ UNCHANGED <<workflows, srecords, req>>
  /\ UNCHANGED <<ntVars, ivVars, bgVars>>

(***************************************************************************)
(* create_workflow, workflow_service.py:24-78.                             *)
(***************************************************************************)
(* lines 32-37: the select of the rows of the pair; the request keeps the  *)
(* number of rows it saw.                                                  *)
CreateSelect(p) ==
  /\ req[p].pc = "idle"
  /\ \E pr \in Pairs :
       req' = [req EXCEPT ![p] =
                 [Idle EXCEPT !.pc = "c_insert",
                              !.exitIdx = Cardinality({w \in WIds : workflows[w].pair = pr}),
                              !.arg = [NoArg EXCEPT !.pair = pr]]]
  /\ UNCHANGED <<templates, workflows, srecords, last>>
  /\ UNCHANGED <<ntVars, ivVars, bgVars>>

(* lines 39-40 and 75-78: a row was seen, the call raises. *)
CreateDuplicate(p) ==
  /\ req[p].pc = "c_insert"
  /\ req[p].exitIdx > 0
  /\ Finish(p, "create_workflow", "raised")
  /\ UNCHANGED <<templates, workflows, srecords>>
  /\ UNCHANGED <<ntVars, ivVars, bgVars>>

NewWorkflowRow(arg) ==
  [pair |-> arg.pair, template |-> arg.template, current_state |-> arg.state,
   previous_state |-> None, status |-> arg.status, progress |-> 0,
   history |-> << [state |-> arg.state, previous_state |-> None,
                   action |-> "workflow_created"] >>,
   completed_at |-> FALSE]

(* lines 43-59: insert and commit of the workflow row. *)
CreateInsert(p) ==
  /\ req[p].pc = "c_insert"
  /\ req[p].exitIdx = 0
  /\ \E w \in WIds, t \in {NoTemplate} \cup {u \in TIds : templates[u] # NoTpl},
        cs \in CreateStates, st \in CreateStatuses :
       LET arg == [pair |-> req[p].arg.pair, template |-> t, state |-> cs, status |-> st]
       IN  /\ ~Exists(w)
           /\ \A u \in WIds : u < w => Exists(u)
           /\ workflows' = [workflows EXCEPT ![w] = NewWorkflowRow(arg)]
           /\ req' = [req EXCEPT ![p].pc = "c_record", ![p].wid = w, ![p].arg = arg]
  /\ UNCHANGED <<templates, srecords, last>>
  /\ UNCHANGED <<ntVars, ivVars, bgVars>>

(* lines 61-73: insert and commit of the initial state record. *)
CreateRecord(p) ==
  /\ req[p].pc = "c_record"
  /\ srecords' = [srecords EXCEPT ![req[p].wid] =
                    Append(@, [state_name |-> req[p].arg.state, exited |-> FALSE])]
  /\ Finish(p, "create_workflow", "workflow")
  /\ UNCHANGED <<templates, workflows>>
  /\ UNCHANGED <<ntVars, ivVars, bgVars>>

(***************************************************************************)
(* transition_state, state_machine_service.py:57-137.                      *)
(***************************************************************************)
(* line 67: get_workflow loads the row into the request's session. *)
TransitionLoad(p) ==
  /\ req[p].pc = "idle"
  /\ \E w \in WIds :
       /\ Len(srecords[w]) < MaxHistory
       /\ req' = [req EXCEPT ![p] =
                    [Idle EXCEPT !.pc = "t_validate", !.wid = w, !.snap = workflows[w]]]
  /\ UNCHANGED <<templates, workflows, srecords, last>>
  /\ UNCHANGED <<ntVars, ivVars, bgVars>>

(* TransitionNotFound with an endpoint that adds the notification task     *)
(* without reading what transition_state returned.                         *)
TransitionNotFoundNotifies(p) ==
  /\ req[p].pc = "t_validate"
  /\ req[p].snap = NoRow
  /\ Finish(p, "transition_state", "False")
  /\ AddTask(WorkflowTask(req[p].wid, "screen"))
  /\ UNCHANGED <<templates, workflows, srecords>>
  /\ UNCHANGED <<ntVars, ivVars>>

(* lines 68-70: no such workflow; main.py:164-165, no task is added. *)
TransitionNotFound(p) ==
  /\ req[p].pc = "t_validate"
  /\ req[p].snap = NoRow
  /\ Finish(p, "transition_state", "False")
  /\ UNCHANGED <<templates, workflows, srecords>>
  /\ UNCHANGED <<ntVars, ivVars, bgVars>>

(* The `action` argument of the request is drawn when it is first read. *)
ValidTransition(p, action) ==
  FindTransition(ApplicableTransitions(req[p].snap), action,
                 req[p].snap.current_state)

(* TransitionReject with the write of line 100 moved before the check of  *)
(* line 90 and committed.                                                 *)
TransitionRejectAfterWrite(p) ==
  /\ req[p].pc = "t_validate"
  /\ req[p].snap # NoRow
  /\ \E action \in Triggers : ValidTransition(p, action) = 0
  /\ workflows' = [workflows EXCEPT ![req[p].wid].previous_state =
                                      req[p].snap.current_state]
  /\ Finish(p, "transition_state", "False")
  /\ UNCHANGED <<templates, srecords>>
  /\ UNCHANGED <<ntVars, ivVars, bgVars>>

(* lines 90-92: no rule matches; the call returns False. *)
TransitionReject(p) ==
  /\ req[p].pc = "t_validate"
  /\ req[p].snap # NoRow
  /\ \E action \in Triggers : ValidTransition(p, action) = 0
  /\ Finish(p, "transition_state", "False")
  /\ UNCHANGED <<templates, workflows, srecords>>
  /\ UNCHANGED <<ntVars, ivVars, bgVars>>

(* The open records of state name s of a workflow (lines 185-191). *)
OpenRecords(recs, s) ==
  { i \in 1..Len(recs) : recs[i].state_name = s /\ ~recs[i].exited }

(* lines 94-97 and 185-193: the rule is found and _record_state_exit      *)
(* selects the open record of the state being left.                       *)
TransitionSelectExit(p) ==
  /\ req[p].pc = "t_validate"
  /\ req[p].snap # NoRow
  /\ \E action \in Triggers :
       /\ ValidTransition(p, action) # 0
       /\ LET open == OpenRecords(srecords[req[p].wid], req[p].snap.current_state)
              rule == ApplicableTransitions(req[p].snap)[ValidTransition(p, action)]
          IN  IF Cardinality(open) > 1
                THEN (* scalar_one_or_none raises; lines 134-137 *)
                     Finish(p, "transition_state", "False")
                ELSE /\ req' = [req EXCEPT ![p].pc = "t_commit",
                                           ![p].action = action,
                                           ![p].dest = rule.dest,
                                           ![p].exitIdx = IF open = {} THEN 0 ELSE MinOf(open)]
                     /\ UNCHANGED last

  /\ UNCHANGED <<templates, workflows, srecords>>
  /\ UNCHANGED <<ntVars, ivVars, bgVars>>

(* lines 100-124: the row as the session holds it before the commit. *)
TransitionedRow(snap, action, new_state) ==
  [snap EXCEPT
     !.previous_state = snap.current_state,
     !.current_state = new_state,
     !.history = Append(snap.history,
                        [state |-> new_state, previous_state |-> snap.current_state,
                         action |-> action]),
     !.progress = CalculateProgress(new_state),
     !.status = IF new_state \in CompletionStates THEN "completed" ELSE snap.status,
     !.completed_at = IF new_state \in CompletionStates THEN TRUE ELSE snap.completed_at]

(* lines 195-199 and 211-219 at the commit: the selected record is closed *)
(* and a record of the new state is inserted.                             *)
TransitionedRecords(recs, exitIdx, new_state) ==
  Append([i \in 1..Len(recs) |->
            IF i = exitIdx THEN [recs[i] EXCEPT !.exited = TRUE] ELSE recs[i]],
         [state_name |-> new_state, exited |-> FALSE])

(* lines 100-132: the writes and the commit.  transition_state returns     *)
(* True and the endpoint adds the notification task (main.py:164-174).     *)
TransitionCommit(p) ==
  /\ req[p].pc = "t_commit"
  /\ BagCardinality(tasks) < MaxTasks
  /\ LET w == req[p].wid
     IN  /\ workflows' = [workflows EXCEPT ![w] =
                            CommitRow(@, req[p].snap,
                                      TransitionedRow(req[p].snap, req[p].action, req[p].dest))]
         /\ srecords' = [srecords EXCEPT ![w] =
                           TransitionedRecords(@, req[p].exitIdx, req[p].dest)]
  /\ Finish(p, "transition_state", "True")
  /\ AddTask(WorkflowTask(req[p].wid, req[p].action))
  /\ UNCHANGED templates
  /\ UNCHANGED <<ntVars, ivVars>>

(***************************************************************************)
(* update_workflow, workflow_service.py:113-165.                           *)
(***************************************************************************)
(* line 121: get_workflow. *)
UpdateLoad(p) ==
  /\ req[p].pc = "idle"
  /\ \E w \in WIds :
       /\ req' = [req EXCEPT ![p] =
                    [Idle EXCEPT !.pc = "u_commit", !.wid = w, !.snap = workflows[w]]]
  /\ UNCHANGED <<templates, workflows, srecords, last>>
  /\ UNCHANGED <<ntVars, ivVars, bgVars>>

(* lines 122-123 *)
UpdateNotFound(p) ==
  /\ req[p].pc = "u_commit"
  /\ req[p].snap = NoRow
  /\ Finish(p, "update_workflow", "None")
  /\ UNCHANGED <<templates, workflows, srecords>>
  /\ UNCHANGED <<ntVars, ivVars, bgVars>>

(* lines 126-149: the row as the session holds it before the commit. *)
UpdatedRow(snap, arg) ==
  LET r1 == IF arg.state # None
              THEN [snap EXCEPT
                      !.history = Append(snap.history,
                                         [state |-> arg.state,
                                          previous_state |-> snap.current_state,
                                          action |-> "state_updated"]),
                      !.previous_state = snap.current_state,
                      !.current_state = arg.state]
              ELSE snap
      r2 == IF arg.status # None THEN [r1 EXCEPT !.status = arg.status] ELSE r1
  IN  IF arg.status = "completed"
        THEN [r2 EXCEPT !.completed_at = TRUE, !.progress = 100]
        ELSE r2

(* lines 126-160: the writes and the commit. *)
UpdateCommit(p) ==
  /\ req[p].pc = "u_commit"
  /\ req[p].snap # NoRow
  /\ \E cs \in UpdateStates, st \in UpdateStatuses :
       workflows' = [workflows EXCEPT ![req[p].wid] =
                       CommitRow(@, req[p].snap,
                                 UpdatedRow(req[p].snap, [NoArg EXCEPT !.state = cs, !.status = st]))]
  /\ Finish(p, "update_workflow", "workflow")
  /\ UNCHANGED <<templates, srecords>>
  /\ UNCHANGED <<ntVars, ivVars, bgVars>>

(***************************************************************************)
(* Notification service.                                                   *)
(***************************************************************************)
NIds  == 1..MaxNotifications
Users == 1..MaxUsers
NoUser == 0

DefaultMaxRetries == 3
RetryBaseSeconds  == 30
RetryCapSeconds   == 300

NotificationChannel == {"email", "sms", "push", "slack", "webhook"}
NotificationStatus  == {"pending", "queued", "sent", "failed", "cancelled"}

(* The <channel>_enabled columns of NotificationPreference. *)
PreferenceChannels == {"email", "sms", "push", "slack"}

(* The category columns of NotificationPreference. *)
PreferenceCategories ==
  {"workflow_notifications", "interview_reminders", "application_updates",
   "system_alerts", "marketing_emails"}

DefaultPreference ==
  [stored |-> TRUE,
   enabled |-> [c \in PreferenceChannels |-> c \in {"email", "push"}],
   categories |-> [c \in PreferenceCategories |-> c # "marketing_emails"]]

NoPreference ==
  [stored |-> FALSE,
   enabled |-> [c \in PreferenceChannels |-> FALSE],
   categories |-> [c \in PreferenceCategories |-> FALSE]]

NoNotification ==
  [user |-> NoUser, channel |-> None, status |-> None, scheduled_at |-> 0,
   retry_count |-> 0, max_retries |-> 0, failure_reason |-> None]

(* Inputs of the requests. *)
CreateChannels == {"email", "sms", "webhook"}
CreateDelays   == {0, TickSeconds}
UpdateFlags    == {"email", "sms"}

Stored(n) == notifs[n] # NoNotification

LogEntry(level, message) == [level |-> level, message |-> message]

RECURSIVE Exp2(_)
Exp2(k) == IF k = 0 THEN 1 ELSE 2 * Exp2(k - 1)

(* retry_delay without the min(300, ...) of line 463. *)
RetryDelayUncapped(retry_count) == RetryBaseSeconds * Exp2(retry_count)

RetryDelay(retry_count) ==
  IF RetryBaseSeconds * Exp2(retry_count) < RetryCapSeconds
  THEN RetryBaseSeconds * Exp2(retry_count)
  ELSE RetryCapSeconds

(* getattr(preferences, f"{channel}_enabled", True) *)
ChannelEnabled(pref, channel) ==
  IF channel \in PreferenceChannels THEN pref.enabled[channel] ELSE TRUE

(***************************************************************************)
(* Notification templates.  The texts of the model, rendered with the      *)
(* context name = Ann: jinja2's Template(text).render returns the text     *)
(* with its expressions replaced, and raises a                             *)
(* TemplateError (TemplateSyntaxError) on the unclosed expression.         *)
(***************************************************************************)
NTIds == 1..MaxNotificationTemplates

TemplateTexts == {"Hi {{ name }}", "Hi {{ name"}

JinjaRaises(text) == text = "Hi {{ name"

JinjaRender(text) == IF text = "Hi {{ name }}" THEN "Hi Ann" ELSE text

NoNotificationTemplate == [subject_template |-> None, body_template |-> None]

(* A response: the operation, how it ended, and for a bulk request the     *)
(* recipients it was given and the fields of BulkNotificationResponse      *)
(* (schemas.py:185-190).                                                   *)
NoResponse ==
  [op |-> None, outcome |-> None, recipients |-> << >>, total_requested |-> 0,
   successfully_queued |-> 0, failed |-> 0, notification_ids |-> << >>,
   errors |-> << >>]

NoRender ==
  [subject |-> None, body |-> None, rendered_successfully |-> FALSE,
   errors |-> << >>]

(* render_template, notification_service.py:95-133, on the row the query   *)
(* returned: the subject is rendered first and kept when the body raises.  *)
RenderTemplate(template) ==
  IF template = NoNotificationTemplate
    THEN [subject |-> None, body |-> "", rendered_successfully |-> FALSE,
          errors |-> <<"Template not found">>]
    ELSE LET hasSubject   == template.subject_template # None
             subjectFails == hasSubject /\ JinjaRaises(template.subject_template)
             bodyFails    == ~subjectFails /\ JinjaRaises(template.body_template)
             failed       == subjectFails \/ bodyFails
         IN  [subject |-> IF hasSubject /\ ~subjectFails
                            THEN JinjaRender(template.subject_template)
                            ELSE None,
              body |-> IF failed THEN "" ELSE JinjaRender(template.body_template),
              rendered_successfully |-> ~failed,
              errors |-> IF failed THEN <<"Template rendering error">> ELSE << >>]

InitNotification ==
  /\ ntemplates = [t \in NTIds |-> NoNotificationTemplate]
  /\ render = NoRender
  /\ nresp = NoResponse
  /\ notifs = [n \in NIds |-> NoNotification]
  /\ prefs = [u \in Users |-> NoPreference]
  /\ nlogs = [n \in NIds |-> << >>]
  /\ queue = [n \in NIds |-> 0]
  /\ sending = [n \in NIds |-> 0]
  /\ now = 0

(* mark_notification_queued: the row after the call. *)
QueuedRow(row) == [row EXCEPT !.status = "queued"]

(* mark_notification_sent: the row after the call. *)
SentRow(row) == [row EXCEPT !.status = "sent"]

WillRetry(row, should_retry) ==
  should_retry /\ row.retry_count + 1 < row.max_retries

(* mark_notification_failed: the row after the call. *)
FailedRow(row, reason, should_retry) ==
  IF WillRetry(row, should_retry)
  THEN [row EXCEPT !.failure_reason = reason,
                   !.retry_count = @ + 1,
                   !.status = "pending",
                   !.scheduled_at = now + RetryDelay(row.retry_count + 1)]
  ELSE [row EXCEPT !.failure_reason = reason,
                   !.retry_count = @ + 1,
                   !.status = "failed"]

FailedLog(row, should_retry) ==
  IF WillRetry(row, should_retry)
  THEN LogEntry("warning", "retry")
  ELSE LogEntry("error", "permanently failed")

(* create_template, notification_service.py:23-37: stored as given. *)
CreateNotificationTemplate(t) ==
  /\ ntemplates[t] = NoNotificationTemplate
  /\ \A u \in NTIds : u < t => ntemplates[u] # NoNotificationTemplate
  /\ \E st \in TemplateTexts \cup {None}, bt \in TemplateTexts :
       ntemplates' = [ntemplates EXCEPT ![t] =
                        [subject_template |-> st, body_template |-> bt]]
  /\ UNCHANGED <<notifs, prefs, nlogs, queue, sending, now, render>>
  /\ UNCHANGED <<wfVars, ivVars, bgVars, nresp>>

(* POST /api/v1/templates/{template_id}/render, main.py:138-145. *)
RenderTemplateCall(t) ==
  /\ render' = RenderTemplate(ntemplates[t])
  /\ UNCHANGED <<notifs, prefs, nlogs, queue, sending, now, ntemplates>>
  /\ UNCHANGED <<wfVars, ivVars, bgVars, nresp>>

(* The row create_notification inserts (lines 148-161); subject and body   *)
(* are not kept in the model.                                              *)
NewNotification(u, ch, d) ==
  [user |-> u, channel |-> ch, status |-> "pending",
   scheduled_at |-> now + d, retry_count |-> 0,
   max_retries |-> DefaultMaxRetries, failure_reason |-> None]

(* POST /api/v1/notifications, main.py:148-164 and create_notification,    *)
(* notification_service.py:136-171: the template named by the request is   *)
(* rendered, and whatever the rendering gave the row is inserted and a     *)
(* process_notification task is added for it.  A template_id that names    *)
(* no stored template violates the foreign key of models.py:55: the        *)
(* commit raises and nothing is inserted.                                  *)
CreateNotification(n) ==
  /\ ~Stored(n)
  /\ \A m \in NIds : m < n => Stored(m)
  /\ \E u \in Users \cup {NoUser}, ch \in CreateChannels, d \in CreateDelays,
        t \in NTIds \cup {NoTemplate} :
       /\ render' = IF t = NoTemplate THEN render ELSE RenderTemplate(ntemplates[t])
       /\ IF t # NoTemplate /\ ntemplates[t] = NoNotificationTemplate
            THEN UNCHANGED <<notifs, nlogs, queue>>
            ELSE /\ notifs' = [notifs EXCEPT ![n] = NewNotification(u, ch, d)]
                 /\ nlogs' = [nlogs EXCEPT ![n] = Append(@, LogEntry("info", "created"))]
                 /\ queue' = [queue EXCEPT ![n] = @ + 1]
  /\ UNCHANGED <<prefs, sending, now, ntemplates>>
  /\ UNCHANGED <<wfVars, ivVars, bgVars, nresp>>

(* A sweep that selects only the notifications never tried before. *)
PendingNotificationsFirstTry ==
  { n \in NIds : Stored(n) /\ notifs[n].status = "pending"
                           /\ notifs[n].scheduled_at <= now
                           /\ notifs[n].retry_count = 0 }

(* get_pending_notifications *)
PendingNotifications ==
  { n \in NIds : Stored(n) /\ notifs[n].status = "pending"
                           /\ notifs[n].scheduled_at <= now }

(* POST /api/v1/queue/process *)
ProcessNotificationQueue ==
  /\ PendingNotifications # {}
  /\ \A n \in PendingNotifications : queue[n] + sending[n] < MaxRuns
  /\ queue' = [n \in NIds |-> IF n \in PendingNotifications
                              THEN queue[n] + 1 ELSE queue[n]]
  /\ UNCHANGED <<notifs, prefs, nlogs, sending, now>>
  /\ UNCHANGED <<wfVars, ivVars, bgVars, tplVars, nresp>>

Suppressed(row) ==
  /\ row.user # NoUser
  /\ prefs[row.user].stored
  /\ ~ChannelEnabled(prefs[row.user], row.channel)

(* process_notification up to its await: mark_notification_queued, the    *)
(* preference check, and either the suppression or the call of the        *)
(* dispatcher.                                                             *)
ProcessStart(n) ==
  /\ queue[n] > 0
  /\ queue' = [queue EXCEPT ![n] = @ - 1]
  /\ LET queued == QueuedRow(notifs[n])
         qlogs  == Append(nlogs[n], LogEntry("info", "queued"))
     IN IF Suppressed(queued)
        THEN /\ notifs' = [notifs EXCEPT ![n] = FailedRow(queued, "disabled", FALSE)]
             /\ nlogs' = [nlogs EXCEPT ![n] = Append(qlogs, FailedLog(queued, FALSE))]
             /\ UNCHANGED sending
        ELSE /\ notifs' = [notifs EXCEPT ![n] = queued]
             /\ nlogs' = [nlogs EXCEPT ![n] = qlogs]
             /\ sending' = [sending EXCEPT ![n] = @ + 1]
  /\ UNCHANGED <<prefs, now>>
  /\ UNCHANGED <<wfVars, ivVars, bgVars, tplVars, nresp>>

(* process_notification after its await, the dispatcher reporting success. *)
ProcessSent(n) ==
  /\ sending[n] > 0
  /\ sending' = [sending EXCEPT ![n] = @ - 1]
  /\ notifs' = [notifs EXCEPT ![n] = SentRow(@)]
  /\ nlogs' = [nlogs EXCEPT ![n] = Append(@, LogEntry("info", "sent"))]
  /\ UNCHANGED <<prefs, queue, now>>
  /\ UNCHANGED <<wfVars, ivVars, bgVars, tplVars, nresp>>

(* process_notification after its await, the dispatcher reporting failure  *)
(* or raising.                                                             *)
ProcessFailed(n) ==
  /\ sending[n] > 0
  /\ sending' = [sending EXCEPT ![n] = @ - 1]
  /\ notifs' = [notifs EXCEPT ![n] = FailedRow(@, "error", TRUE)]
  /\ nlogs' = [nlogs EXCEPT ![n] = Append(@, FailedLog(notifs[n], TRUE))]
  /\ UNCHANGED <<prefs, queue, now>>
  /\ UNCHANGED <<wfVars, ivVars, bgVars, tplVars, nresp>>

(* GET /api/v1/users/{user_id}/preferences creates the default row. *)
GetUserPreferences(u) ==
  /\ ~prefs[u].stored
  /\ prefs' = [prefs EXCEPT ![u] = DefaultPreference]
  /\ UNCHANGED <<notifs, nlogs, queue, sending, now>>
  /\ UNCHANGED <<wfVars, ivVars, bgVars, tplVars, nresp>>

(* update_user_preferences: the fields of the body are set on the row.    *)
(* The bodies of the model set one channel flag, or all category flags.   *)
UpdateUserPreferences(u) ==
  /\ prefs[u].stored
  /\ \/ \E c \in UpdateFlags, v \in BOOLEAN :
          /\ prefs[u].enabled[c] # v
          /\ prefs' = [prefs EXCEPT ![u].enabled[c] = v]
     \/ /\ \E c \in PreferenceCategories : prefs[u].categories[c]
        /\ prefs' = [prefs EXCEPT ![u].categories =
                                    [c \in PreferenceCategories |-> FALSE]]
  /\ UNCHANGED <<notifs, nlogs, queue, sending, now>>
  /\ UNCHANGED <<wfVars, ivVars, bgVars, tplVars, nresp>>

(* The recipients of a bulk request: "ok" is a dict NotificationCreate      *)
(* accepts (a recipient and a body), "bad" one on which it raises (no       *)
(* body, no recipient, or a key that repeats a keyword of line 277-283).   *)
RecipientKinds == {"ok", "bad"}

RECURSIVE SeqsUpTo(_)
SeqsUpTo(k) ==
  IF k = 0 THEN { << >> }
  ELSE SeqsUpTo(k - 1)
         \cup { Append(r, x) : r \in { q \in SeqsUpTo(k - 1) : Len(q) = k - 1 },
                               x \in RecipientKinds }

BulkRecipients == SeqsUpTo(MaxRecipients)

RECURSIVE CountOk(_)
CountOk(recipients) ==
  IF recipients = << >> THEN 0
  ELSE (IF Head(recipients) = "ok" THEN 1 ELSE 0) + CountOk(Tail(recipients))

(* The notification ids not in use, in ascending order. *)
RECURSIVE FreeIds(_)
FreeIds(from) ==
  IF from > MaxNotifications THEN << >>
  ELSE IF Stored(from) THEN FreeIds(from + 1) ELSE <<from>> \o FreeIds(from + 1)

(* The loop of create_bulk_notifications, lines 270-291: acc holds          *)
(* notification_ids and errors.                                            *)
RECURSIVE BulkLoop(_, _, _)
BulkLoop(recipients, free, acc) ==
  IF recipients = << >> THEN acc
  ELSE IF Head(recipients) = "ok"
         THEN BulkLoop(Tail(recipients), Tail(free),
                       [acc EXCEPT !.notification_ids = Append(@, Head(free))])
         ELSE BulkLoop(Tail(recipients), free,
                       [acc EXCEPT !.errors =
                          Append(@, "Failed to create notification")])

(* create_bulk_notifications, lines 251-299: the BulkNotificationResponse. *)
BulkResponse(template, recipients, free) ==
  IF template = NoNotificationTemplate
    THEN [NoResponse EXCEPT !.op = "create_bulk_notifications",
                            !.outcome = "response",
                            !.recipients = recipients,
                            !.total_requested = Len(recipients),
                            !.successfully_queued = 0,
                            !.failed = Len(recipients),
                            !.errors = <<"Template not found">>]
    ELSE LET acc == BulkLoop(recipients, free,
                             [notification_ids |-> << >>, errors |-> << >>])
         IN  [NoResponse EXCEPT !.op = "create_bulk_notifications",
                                !.outcome = "response",
                                !.recipients = recipients,
                                !.total_requested = Len(recipients),
                                !.successfully_queued = Len(acc.notification_ids),
                                !.failed = Len(recipients) - Len(acc.notification_ids),
                                !.notification_ids = acc.notification_ids,
                                !.errors = acc.errors]

Range(f) == { f[i] : i \in DOMAIN f }

(* POST /api/v1/notifications/bulk, main.py:166-183: one notification per   *)
(* recipient create_notification accepts, on the channel of the template,  *)
(* each with its rendering, its log entry and its process_notification     *)
(* task.                                                                   *)
CreateBulkNotifications(t) ==
  \E recipients \in BulkRecipients, ch \in CreateChannels, d \in CreateDelays :
    LET free == FreeIds(1)
        resp == BulkResponse(ntemplates[t], recipients, free)
        ids  == Range(resp.notification_ids)
    IN  /\ CountOk(recipients) <= Len(free)
        /\ nresp' = resp
        /\ notifs' = [n \in NIds |-> IF n \in ids THEN NewNotification(NoUser, ch, d)
                                     ELSE notifs[n]]
        /\ nlogs' = [n \in NIds |-> IF n \in ids
                                     THEN Append(nlogs[n], LogEntry("info", "created"))
                                     ELSE nlogs[n]]
        /\ queue' = [n \in NIds |-> IF n \in ids THEN queue[n] + 1 ELSE queue[n]]
        /\ render' = IF ids = {} THEN render ELSE RenderTemplate(ntemplates[t])
        /\ UNCHANGED <<prefs, sending, now, ntemplates>>
        /\ UNCHANGED <<wfVars, ivVars, bgVars>>

(* Inputs of PUT /api/v1/notifications/{id} (NotificationUpdate): the      *)
(* status given, None when the body has none.                             *)
UpdateNotificationStatuses == {None, "pending", "cancelled"}

Updates(n) ==
  Cardinality({ i \in 1..Len(nlogs[n]) : nlogs[n][i].message = "updated" })

(* update_notification, notification_service.py:214-237: the fields of    *)
(* the body are set on the row and the update is logged.                   *)
UpdateNotification(n) ==
  /\ Stored(n)
  /\ Updates(n) < MaxUpdates
  /\ \E st \in UpdateNotificationStatuses :
       notifs' = [notifs EXCEPT ![n].status = IF st = None THEN @ ELSE st]
  /\ nlogs' = [nlogs EXCEPT ![n] = Append(@, LogEntry("info", "updated"))]
  /\ nresp' = [NoResponse EXCEPT !.op = "update_notification", !.outcome = "updated"]
  /\ UNCHANGED <<prefs, queue, sending, now>>
  /\ UNCHANGED <<wfVars, ivVars, bgVars, tplVars>>

(* DeleteNotification with a foreign key declared ON DELETE CASCADE. *)
DeleteNotificationCascade(n) ==
  /\ Stored(n)
  /\ nresp' = [NoResponse EXCEPT !.op = "delete_notification", !.outcome = "deleted"]
  /\ notifs' = [notifs EXCEPT ![n] = NoNotification]
  /\ nlogs' = [nlogs EXCEPT ![n] = << >>]
  /\ UNCHANGED <<prefs, queue, sending, now>>
  /\ UNCHANGED <<wfVars, ivVars, bgVars, tplVars>>

(* delete_notification, notification_service.py:239-248: the row is        *)
(* deleted and the commit issues DELETE FROM notifications.  The log rows  *)
(* of the notification reference it (models.py:128, no ON DELETE, no       *)
(* relationship on Notification that would detach them), so with a log     *)
(* row present the commit raises IntegrityError and nothing is deleted.    *)
DeleteNotification(n) ==
  /\ Stored(n)
  /\ IF nlogs[n] # << >>
       THEN /\ nresp' = [NoResponse EXCEPT !.op = "delete_notification",
                                           !.outcome = "IntegrityError"]
            /\ UNCHANGED notifs
       ELSE /\ nresp' = [NoResponse EXCEPT !.op = "delete_notification",
                                           !.outcome = "deleted"]
            /\ notifs' = [notifs EXCEPT ![n] = NoNotification]
  /\ UNCHANGED <<prefs, nlogs, queue, sending, now>>
  /\ UNCHANGED <<wfVars, ivVars, bgVars, tplVars>>

(* Time passes. *)
Tick ==
  /\ now < MaxTicks * TickSeconds
  /\ now' = now + TickSeconds
  /\ UNCHANGED <<notifs, prefs, nlogs, queue, sending>>
  /\ UNCHANGED <<wfVars, ivVars, bgVars, tplVars, nresp>>

(* The pending notifications whose scheduled_at is still ahead. *)
WaitingNotifications ==
  { n \in NIds : Stored(n) /\ notifs[n].status = "pending"
                           /\ notifs[n].scheduled_at > now }

(* Time passes until the earliest waiting notification is due. *)
Elapse ==
  /\ WaitingNotifications # {}
  /\ now' = MinOf({ notifs[n].scheduled_at : n \in WaitingNotifications })
  /\ UNCHANGED <<notifs, prefs, nlogs, queue, sending>>
  /\ UNCHANGED <<wfVars, ivVars, bgVars, tplVars, nresp>>

(***************************************************************************)
(* Interviews, interview_service.py.  The columns kept are the ones the    *)
(* operations below assign: status, scheduled_start (the scheduling data), *)
(* feedback (feedback and scores) and notes.  The workflow_id of a row is  *)
(* taken to name an existing workflow.                                     *)
(***************************************************************************)
IIds == 1..MaxInterviews

(* schemas.py:20-25 *)
InterviewStatus == {"pending", "scheduled", "in_progress", "completed", "cancelled"}

NoInterview == [status |-> None, scheduled_start |-> None, feedback |-> None,
                notes |-> None]

(* create_interview sets no status: the column default applies (models.py:96). *)
NewInterview == [NoInterview EXCEPT !.status = "pending"]

InterviewOps == {"schedule_interview", "start_interview", "complete_interview",
                 "cancel_interview", "update_interview"}

(* Inputs of update_interview (InterviewStepUpdate): None is a field left  *)
(* unset.                                                                  *)
UpdateInterviewStatuses == {None, "pending"}
UpdateInterviewNotes == {None, "kept"}

IdleInterview == [pc |-> "idle", op |-> None, iid |-> 0, snap |-> NoInterview]

NoInterviewCall == [op |-> None, iid |-> 0, ret |-> None]

InitInterview ==
  /\ interviews = [i \in IIds |-> NoInterview]
  /\ ireq = [p \in Procs |-> IdleInterview]
  /\ ilast = NoInterviewCall

(* The call of process p returns r and the request ends. *)
FinishInterview(p, r) ==
  /\ ireq' = [ireq EXCEPT ![p] = IdleInterview]
  /\ ilast' = [op |-> ireq[p].op, iid |-> ireq[p].iid, ret |-> r]

(* lines 16-45: insert and commit. *)
CreateInterview(p) ==
  /\ ireq[p].pc = "idle"
  /\ \E i \in IIds :
       /\ interviews[i] = NoInterview
       /\ \A j \in IIds : j < i => interviews[j] # NoInterview
       /\ interviews' = [interviews EXCEPT ![i] = NewInterview]
       /\ ilast' = [op |-> "create_interview", iid |-> i, ret |-> "interview"]
  /\ UNCHANGED ireq
  /\ UNCHANGED <<wfVars, ntVars, bgVars>>

(* lines 47-61 get_interview, the first await of every operation below. *)
GetInterview(p) ==
  /\ ireq[p].pc = "idle"
  /\ \E op \in InterviewOps, i \in IIds :
       ireq' = [ireq EXCEPT ![p] =
                  [pc |-> "loaded", op |-> op, iid |-> i, snap |-> interviews[i]]]
  /\ UNCHANGED <<interviews, ilast>>
  /\ UNCHANGED <<wfVars, ntVars, bgVars>>

(* `if not interview`: False, None from update_interview (lines 114-115,   *)
(* 153-154, 185-186, 213-214, 240-241).                                    *)
InterviewNotFound(p) ==
  /\ ireq[p].pc = "loaded"
  /\ ireq[p].snap = NoInterview
  /\ FinishInterview(p, IF ireq[p].op = "update_interview" THEN "None" ELSE "False")
  /\ UNCHANGED interviews
  /\ UNCHANGED <<wfVars, ntVars, bgVars>>

(* The writes of operation op on the loaded row and the commit. *)
InterviewCommit(p, new, r) ==
  /\ ireq[p].pc = "loaded"
  /\ ireq[p].snap # NoInterview
  /\ interviews' = [interviews EXCEPT ![ireq[p].iid] = CommitRow(@, ireq[p].snap, new)]
  /\ FinishInterview(p, r)
  /\ UNCHANGED <<wfVars, ntVars>>

(* lines 157-163 *)
ScheduledRow(snap) ==
  [snap EXCEPT !.scheduled_start = "slot", !.status = "scheduled"]

(* lines 144-179, and main.py:212-224: the endpoint adds the notification  *)
(* task once schedule_interview has returned True.                         *)
ScheduleInterview(p) ==
  /\ ireq[p].op = "schedule_interview"
  /\ BagCardinality(tasks) < MaxTasks
  /\ InterviewCommit(p, ScheduledRow(ireq[p].snap), "True")
  /\ AddTask(InterviewTask(ireq[p].iid))

(* lines 188-190 *)
StartedRow(snap) == [snap EXCEPT !.status = "in_progress"]

(* lines 181-200 *)
StartInterview(p) ==
  /\ ireq[p].op = "start_interview"
  /\ InterviewCommit(p, StartedRow(ireq[p].snap), "True")
  /\ UNCHANGED bgVars

(* lines 215-219 *)
CompletedRow(snap) == [snap EXCEPT !.status = "completed", !.feedback = "feedback"]

(* lines 202-229 *)
CompleteInterview(p) ==
  /\ ireq[p].op = "complete_interview"
  /\ InterviewCommit(p, CompletedRow(ireq[p].snap), "True")
  /\ UNCHANGED bgVars

(* lines 243-244 *)
CancelledRow(snap) ==
  [snap EXCEPT !.status = "cancelled", !.notes = "Cancelled: reason"]

(* lines 231-255 *)
CancelInterview(p) ==
  /\ ireq[p].op = "cancel_interview"
  /\ InterviewCommit(p, CancelledRow(ireq[p].snap), "True")
  /\ UNCHANGED bgVars

(* lines 118-129: every field given is assigned. *)
UpdatedInterviewRow(snap, status, notes) ==
  [snap EXCEPT !.status = IF status # None THEN status ELSE @,
               !.notes = IF notes # None THEN notes ELSE @]

(* lines 105-142 *)
UpdateInterview(p) ==
  /\ ireq[p].op = "update_interview"
  /\ \E status \in UpdateInterviewStatuses, notes \in UpdateInterviewNotes :
       InterviewCommit(p, UpdatedInterviewRow(ireq[p].snap, status, notes), "interview")
  /\ UNCHANGED bgVars


(***************************************************************************)
(* POST /workflows/{workflow_id}/transition, main.py:151-177: the         *)
(* response to the caller for what transition_state returned.  The        *)
(* HTTPException raised for a False result is caught by the handler's own *)
(* `except Exception` and replaced.                                       *)
(***************************************************************************)
TransitionResponse(ret) ==
  IF ret = "True"
    THEN [status |-> 200, detail |-> "State transition successful"]
    ELSE [status |-> 500, detail |-> "Failed to transition state"]

(* The response for a workflow id that does not exist: transition_state   *)
(* returns False (state_machine_service.py:68-70).                        *)
NotFoundResponse == TransitionResponse("False")

(***************************************************************************)
(* Next-state relations.  A request of process p is a sequence of steps;   *)
(* Next interleaves the requests freely.  The restricted relations below   *)
(* keep part of the requests serial: their behaviours are behaviours of    *)
(* Spec.                                                                   *)
(***************************************************************************)
CreateStep(p) ==
  \/ CreateSelect(p)
  \/ CreateDuplicate(p)
  \/ CreateInsert(p)
  \/ CreateRecord(p)

TransitionStep(p) ==
  \/ TransitionLoad(p)
  \/ TransitionNotFound(p)
  \/ TransitionReject(p)
  \/ TransitionSelectExit(p)
  \/ TransitionCommit(p)

UpdateStep(p) ==
  \/ UpdateLoad(p)
  \/ UpdateNotFound(p)
  \/ UpdateCommit(p)

(* No other request is in flight. *)
Alone(p) ==
  /\ \A q \in Procs \ {p} : req[q].pc = "idle"
  /\ tasks = EmptyBag

(* The other requests in flight are transition_state calls. *)
AmongTransitions(p) ==
  \A q \in Procs \ {p} : req[q].pc \in {"idle", "t_validate", "t_commit"}

vars == <<templates, workflows, srecords, req, last,
          notifs, prefs, nlogs, queue, sending, now,
          interviews, ireq, ilast, tasks, sendlog, ntemplates, render, nresp>>

Init == InitWorkflow /\ InitNotification /\ InitInterview /\ InitBackground

NextWorkflow ==
  \E p \in Procs :
    \/ CreateTemplate(p)
    \/ CreateStep(p)
    \/ TransitionStep(p)
    \/ UpdateStep(p)

(* The background tasks of the workflow service. *)
NextBackground ==
  \/ SendWorkflowNotification
  \/ SendInterviewNotification

NextNotification ==
  \/ \E n \in NIds : CreateNotification(n)
  \/ ProcessNotificationQueue
  \/ \E n \in NIds : ProcessStart(n)
  \/ \E n \in NIds : ProcessSent(n)
  \/ \E n \in NIds : ProcessFailed(n)
  \/ \E u \in Users : GetUserPreferences(u)
  \/ \E u \in Users : UpdateUserPreferences(u)
  \/ Tick

(* InterviewService calls, interleaved freely. *)
NextInterview ==
  \/ \E p \in Procs : CreateInterview(p)
  \/ \E p \in Procs : GetInterview(p)
  \/ \E p \in Procs : InterviewNotFound(p)
  \/ \E p \in Procs : ScheduleInterview(p)
  \/ \E p \in Procs : StartInterview(p)
  \/ \E p \in Procs : CompleteInterview(p)
  \/ \E p \in Procs : CancelInterview(p)
  \/ \E p \in Procs : UpdateInterview(p)
  \/ SendInterviewNotification

(* The template requests of the notification service and the creation of   *)
(* notifications.                                                          *)
NextTemplates ==
  \/ \E t \in NTIds : CreateNotificationTemplate(t)
  \/ \E t \in NTIds : RenderTemplateCall(t)
  \/ \E n \in NIds : CreateNotification(n)

(* The template requests and the bulk request. *)
NextBulk ==
  \/ \E t \in NTIds : CreateNotificationTemplate(t)
  \/ \E t \in NTIds : CreateBulkNotifications(t)
  \/ \E n \in NIds : ProcessStart(n)
  \/ \E n \in NIds : ProcessSent(n)
  \/ \E n \in NIds : ProcessFailed(n)

(* The notification requests, the processing of the notifications and the  *)
(* update and delete requests; no preference row is stored.                *)
NextAudit ==
  \/ \E n \in NIds : CreateNotification(n)
  \/ ProcessNotificationQueue
  \/ \E n \in NIds : ProcessStart(n)
  \/ \E n \in NIds : ProcessSent(n)
  \/ \E n \in NIds : ProcessFailed(n)
  \/ Tick
  \/ \E n \in NIds : UpdateNotification(n)
  \/ \E n \in NIds : DeleteNotification(n)

(* Delivery: the notifications are created, swept and processed while     *)
(* time passes and the preferences are read and changed.                  *)
NextDelivery ==
  \/ \E n \in NIds : CreateNotification(n)
  \/ ProcessNotificationQueue
  \/ \E n \in NIds : ProcessStart(n)
  \/ \E n \in NIds : ProcessSent(n)
  \/ \E n \in NIds : ProcessFailed(n)
  \/ \E u \in Users : GetUserPreferences(u)
  \/ \E u \in Users : UpdateUserPreferences(u)
  \/ Elapse

(* The sweep is called again and again, every added process_notification  *)
(* task is run by the event loop, the dispatcher's await returns, with     *)
(* success or failure, and time passes.                                    *)
FairDelivery ==
  /\ WF_vars(ProcessNotificationQueue)
  /\ \A n \in NIds : WF_vars(ProcessStart(n))
  /\ \A n \in NIds : WF_vars(ProcessSent(n) \/ ProcessFailed(n))
  /\ WF_vars(Elapse)

Next ==
  NextWorkflow \/ NextNotification \/ NextAudit \/ NextInterview
    \/ NextBackground \/ NextTemplates \/ NextBulk \/ NextDelivery

Spec == Init /\ [][Next]_vars

SpecAudit == Init /\ [][NextAudit]_vars

SpecDelivery == Init /\ [][NextDelivery]_vars /\ FairDelivery

SpecBulk == Init /\ [][NextBulk]_vars

SpecTemplates == Init /\ [][NextTemplates]_vars

(* One request at a time: create_workflow and transition_state only. *)
NextPipeline ==
  \/ \E p \in Procs : Alone(p) /\ CreateTemplate(p)
  \/ \E p \in Procs : Alone(p) /\ CreateSelect(p)
  \/ \E p \in Procs : Alone(p) /\ CreateDuplicate(p)
  \/ \E p \in Procs : Alone(p) /\ CreateInsert(p)
  \/ \E p \in Procs : Alone(p) /\ CreateRecord(p)
  \/ \E p \in Procs : Alone(p) /\ TransitionLoad(p)
  \/ \E p \in Procs : Alone(p) /\ TransitionNotFound(p)
  \/ \E p \in Procs : Alone(p) /\ TransitionReject(p)
  \/ \E p \in Procs : Alone(p) /\ TransitionSelectExit(p)
  \/ \E p \in Procs : Alone(p) /\ TransitionCommit(p)
  \/ SendWorkflowNotification

(* No InterviewService call and no background task is in flight. *)
InterviewsIdle ==
  /\ \A q \in Procs : ireq[q].pc = "idle"
  /\ tasks = EmptyBag

(* No other InterviewService call, no workflow request and no background   *)
(* task is in flight.                                                      *)
AloneInterview(p) ==
  /\ \A q \in Procs \ {p} : ireq[q].pc = "idle"
  /\ \A q \in Procs : req[q].pc = "idle"
  /\ tasks = EmptyBag

(* The two business events that notify, one request at a time, each        *)
(* followed by its background task: POST /workflows/{id}/transition and    *)
(* POST /interviews/{id}/schedule.                                         *)
NextEvents ==
  \/ \E p \in Procs : Alone(p) /\ InterviewsIdle /\ CreateTemplate(p)
  \/ \E p \in Procs : Alone(p) /\ InterviewsIdle /\ CreateSelect(p)
  \/ \E p \in Procs : Alone(p) /\ InterviewsIdle /\ CreateDuplicate(p)
  \/ \E p \in Procs : Alone(p) /\ InterviewsIdle /\ CreateInsert(p)
  \/ \E p \in Procs : Alone(p) /\ InterviewsIdle /\ CreateRecord(p)
  \/ \E p \in Procs : Alone(p) /\ InterviewsIdle /\ TransitionLoad(p)
  \/ \E p \in Procs : Alone(p) /\ InterviewsIdle /\ TransitionNotFound(p)
  \/ \E p \in Procs : Alone(p) /\ InterviewsIdle /\ TransitionReject(p)
  \/ \E p \in Procs : Alone(p) /\ InterviewsIdle /\ TransitionSelectExit(p)
  \/ \E p \in Procs : Alone(p) /\ InterviewsIdle /\ TransitionCommit(p)
  \/ \E p \in Procs : AloneInterview(p) /\ CreateInterview(p)
  \/ \E p \in Procs :
       AloneInterview(p) /\ GetInterview(p) /\ ireq'[p].op = "schedule_interview"
  \/ \E p \in Procs : AloneInterview(p) /\ InterviewNotFound(p)
  \/ \E p \in Procs : AloneInterview(p) /\ ScheduleInterview(p)
  \/ SendWorkflowNotification
  \/ SendInterviewNotification

SpecEvents == Init /\ [][NextEvents]_vars

SpecInterview == Init /\ [][NextInterview]_vars

SpecPipeline == Init /\ [][NextPipeline]_vars

(* One request at a time, update_workflow included. *)
NextSerial ==
  \/ NextPipeline
  \/ \E p \in Procs : Alone(p) /\ UpdateLoad(p)
  \/ \E p \in Procs : Alone(p) /\ UpdateNotFound(p)
  \/ \E p \in Procs : Alone(p) /\ UpdateCommit(p)

SpecSerial == Init /\ [][NextSerial]_vars

(* transition_state calls overlap one another; create_workflow and       *)
(* create_template run alone.                                             *)
NextTransitionRace ==
  \/ \E p \in Procs : Alone(p) /\ CreateTemplate(p)
  \/ \E p \in Procs : Alone(p) /\ CreateSelect(p)
  \/ \E p \in Procs : Alone(p) /\ CreateDuplicate(p)
  \/ \E p \in Procs : Alone(p) /\ CreateInsert(p)
  \/ \E p \in Procs : Alone(p) /\ CreateRecord(p)
  \/ \E p \in Procs : AmongTransitions(p) /\ TransitionLoad(p)
  \/ \E p \in Procs : AmongTransitions(p) /\ TransitionNotFound(p)
  \/ \E p \in Procs : AmongTransitions(p) /\ TransitionReject(p)
  \/ \E p \in Procs : AmongTransitions(p) /\ TransitionSelectExit(p)
  \/ \E p \in Procs : AmongTransitions(p) /\ TransitionCommit(p)
  \/ SendWorkflowNotification

SpecTransitionRace == Init /\ [][NextTransitionRace]_vars

(* create_workflow calls overlap one another. *)
NextCreateRace ==
  \/ \E p \in Procs : CreateTemplate(p)
  \/ \E p \in Procs : CreateSelect(p)
  \/ \E p \in Procs : CreateDuplicate(p)
  \/ \E p \in Procs : CreateInsert(p)
  \/ \E p \in Procs : CreateRecord(p)

SpecCreateRace == Init /\ [][NextCreateRace]_vars

(* The notification service alone. *)
SpecNotification == Init /\ [][NextNotification]_vars

(***************************************************************************)
(* Properties of the workflow service.                                     *)
(***************************************************************************)
(* A terminal state of a transition list: no rule has it among its        *)
(* sources.                                                               *)
IsTerminal(transitions, s) ==
  \A i \in 1..Len(transitions) : s \notin transitions[i].source

(* Some rule of the list leads from state s to state d. *)
HasRule(transitions, s, d) ==
  \E i \in 1..Len(transitions) :
    s \in transitions[i].source /\ transitions[i].dest = d

(* The workflow was created in the initial state of the graphs. *)
StartedAtInitial(w) == workflows[w].history[1].state = "applied"

(* C1: a transition_state call that finds the workflow but no matching    *)
(* rule returns False and leaves the workflow row (current_state,         *)
(* previous_state, status, state_history, progress_percentage) and its    *)
(* state records as they were.                                            *)
C1_InvalidTransitionChangesNothing ==
  [][\A p \in Procs :
       (req[p].pc = "t_validate" /\ req[p].snap # NoRow /\ req'[p].pc = "idle")
         => /\ last'.op = "transition_state"
            /\ last'.ret = "False"
            /\ workflows' = workflows
            /\ srecords' = srecords]_vars

(* A transition_state call on an existing workflow has returned False. *)
C1_Witness ==
  /\ last.op = "transition_state"
  /\ last.ret = "False"
  /\ last.wid \in WIds
  /\ Exists(last.wid)
  /\ workflows[last.wid].previous_state # None

(* C2: concurrent transition_state calls on one workflow are linearized:  *)
(* a call commits its transition only onto the row it validated the       *)
(* trigger against, so no other write to the instance lies between its    *)
(* read and its commit.                                                   *)
C2_TransitionsLinearized ==
  [][\A p \in Procs :
       (req[p].pc = "t_commit" /\ req'[p].pc = "idle")
         => workflows[req[p].wid] = req[p].snap]_vars

(* C4: status = completed exactly when current_state is a terminal state  *)
(* of the workflow's transition list.                                     *)
C4_CompletedIffTerminal ==
  \A w \in WIds :
    (Exists(w) /\ StartedAtInitial(w)) =>
      ((workflows[w].status = "completed")
         <=> IsTerminal(ApplicableTransitions(workflows[w]), workflows[w].current_state))

(* C5: a workflow whose current_state is terminal has status completed or *)
(* cancelled and progress_percentage 100.                                 *)
C5_TerminalIsCompleteAt100 ==
  \A w \in WIds :
    (/\ Exists(w)
     /\ StartedAtInitial(w)
     /\ IsTerminal(ApplicableTransitions(workflows[w]), workflows[w].current_state))
      => /\ workflows[w].status \in {"completed", "cancelled"}
         /\ workflows[w].progress = 100

(* C6: no two active workflow rows share a (candidate, job) pair. *)
C6_OneActivePerPair ==
  \A w1, w2 \in WIds :
    (/\ w1 # w2
     /\ Exists(w1) /\ Exists(w2)
     /\ workflows[w1].pair = workflows[w2].pair
     /\ workflows[w1].status = "active")
      => workflows[w2].status # "active"

(* C10: every change of a workflow's current_state follows a rule of its  *)
(* transition list from the prior state to the new one.                   *)
C10_StateChangesFollowRules ==
  [][\A w \in WIds :
       (Exists(w) /\ workflows'[w].current_state # workflows[w].current_state)
         => HasRule(ApplicableTransitions(workflows[w]),
                    workflows[w].current_state, workflows'[w].current_state)]_vars

(* C11: in every committed state the last state_history entry of a        *)
(* workflow names its current_state and its previous_state, and the       *)
(* history has one entry for the creation and one for every successful    *)
(* transition (every transition inserts one state record).                *)
C11_HistoryFollowsState ==
  \A w \in WIds :
    Exists(w) =>
      LET h == workflows[w].history
      IN  /\ h[Len(h)].state = workflows[w].current_state
          /\ h[Len(h)].previous_state = workflows[w].previous_state
          /\ Len(srecords[w]) > 0 => Len(h) = Len(srecords[w])

(* C15: transition_state goes on to the commit with trigger T from state  *)
(* S only when a rule of the applicable list has trigger T, has S as its  *)
(* source or among its sources, and has the destination the call moves    *)
(* to; a state that merely is a substring of a source does not match.     *)
C15_ExactSourceMatch ==
  [][\A p \in Procs :
       (req[p].pc = "t_validate" /\ req'[p].pc = "t_commit") =>
         LET T == ApplicableTransitions(req[p].snap)
         IN  \E i \in 1..Len(T) :
               /\ T[i].trigger = req'[p].action
               /\ req[p].snap.current_state \in T[i].source
               /\ T[i].dest = req'[p].dest]_vars

(* C16: when create_workflow has returned the new workflow, its           *)
(* current_state is the initial state applied, its status active, its     *)
(* progress_percentage 10, it has exactly one state record, open and of   *)
(* that state, and its state_history is the one creation entry.           *)
C16_CreatedAtInitialState ==
  (last.op = "create_workflow" /\ last.ret = "workflow") =>
    LET w == last.wid
    IN  /\ workflows[w].current_state = "applied"
        /\ workflows[w].status = "active"
        /\ workflows[w].progress = 10
        /\ srecords[w] = << [state_name |-> "applied", exited |-> FALSE] >>
        /\ workflows[w].history =
             << [state |-> "applied", previous_state |-> None,
                 action |-> "workflow_created"] >>

(* The percentages of scenario A for the states its transitions reach. *)
ScenarioAProgress(s) ==
  CASE s = "screening" -> 20
    [] s = "offer" -> 95
    [] s = "hired" -> 100

(* C17: a workflow of the scenario A template that screen, extend_offer   *)
(* and accept have moved from applied has progress_percentage 20 at       *)
(* screening, 95 at offer and 100 at hired, and status completed at       *)
(* hired.                                                                 *)
C17_ScenarioAProgress ==
  \A w \in WIds :
    (/\ Exists(w)
     /\ workflows[w].template # NoTemplate
     /\ templates[workflows[w].template].hasKey
     /\ templates[workflows[w].template].rules = ScenarioATransitions
     /\ StartedAtInitial(w)
     /\ workflows[w].previous_state # None
     /\ workflows[w].current_state \in {"screening", "offer", "hired"})
      => /\ workflows[w].progress = ScenarioAProgress(workflows[w].current_state)
         /\ workflows[w].current_state = "hired" => workflows[w].status = "completed"

(* C18: the response to an illegal trigger on an existing workflow differs *)
(* from the response to a workflow id that does not exist.                *)
C18_FailuresDistinguished ==
  [][\A p \in Procs :
       (/\ req[p].pc = "t_validate"
        /\ req[p].snap # NoRow
        /\ req'[p].pc = "idle"
        /\ last'.ret = "False")
         => TransitionResponse(last'.ret) # NotFoundResponse]_vars

(***************************************************************************)
(* Properties of the notification service.                                 *)
(***************************************************************************)
(* C3: of the process_notification runs started for one pending           *)
(* notification only one claims it: a run that goes on to the dispatcher  *)
(* found the notification pending when it marked it queued, so no second  *)
(* run dispatches the same delivery attempt.                              *)
C3_OneRunClaims ==
  [][\A n \in NIds :
       sending'[n] > sending[n] => notifs[n].status = "pending"]_vars

(* C7: for a notification that no preference suppresses and whose         *)
(* dispatches all fail, retry_count never passes max_retries, and once    *)
(* it has failed permanently it stays failed with its retry_count and is  *)
(* not dispatched again.                                                  *)
C7_RetriesStopAtMax ==
  [][\A n \in NIds :
       (Stored(n) /\ notifs[n].user = NoUser /\ notifs'[n].status # "sent") =>
         /\ notifs'[n].retry_count <= notifs[n].max_retries
         /\ notifs[n].status = "failed"
              => /\ notifs'[n].status = "failed"
                 /\ notifs'[n].retry_count = notifs[n].retry_count
                 /\ sending'[n] <= sending[n]]_vars

(* C8: a notification failed by preference suppression has consumed no    *)
(* retry.                                                                 *)
C8_SuppressionKeepsRetryCount ==
  \A n \in NIds :
    (Stored(n) /\ notifs[n].status = "failed" /\ notifs[n].failure_reason = "disabled")
      => notifs[n].retry_count = 0

(* C9: a run hands a notification to the dispatcher only at or after its  *)
(* scheduled_at.                                                          *)
C9_NoDispatchBeforeSchedule ==
  [][\A n \in NIds :
       sending'[n] > sending[n] => notifs[n].scheduled_at <= now]_vars

(* C12: a notification that is sent or permanently failed keeps its       *)
(* status and its retry_count and is not handed to the dispatcher again.  *)
C12_TerminalStatusIsFinal ==
  [][\A n \in NIds :
       (Stored(n) /\ notifs[n].status \in {"sent", "failed"}) =>
         /\ notifs'[n].status = notifs[n].status
         /\ notifs'[n].retry_count = notifs[n].retry_count
         /\ sending'[n] <= sending[n]]_vars

(* The recipient's stored preferences disable the notification's channel, *)
(* or disable every category and with them the notification's own.        *)
DisabledByPreference(row) ==
  /\ row.user # NoUser
  /\ prefs[row.user].stored
  /\ \/ ~ChannelEnabled(prefs[row.user], row.channel)
     \/ \A c \in PreferenceCategories : ~prefs[row.user].categories[c]

(* C13: a notification whose recipient has disabled its channel or its    *)
(* category is not handed to the dispatcher.                              *)
C13_DisabledNeverDispatched ==
  [][\A n \in NIds :
       sending'[n] > sending[n] => ~DisabledByPreference(notifs[n])]_vars

(* A retry of notification n has been scheduled before. *)
HasRetried(n) ==
  \E i \in 1..Len(nlogs[n]) : nlogs[n][i].message = "retry"

(* C14: the retry delay is non-decreasing in retry_count and never above  *)
(* the cap, and every failure that schedules a retry sets scheduled_at to *)
(* now plus that delay, strictly later than the scheduled_at of the       *)
(* previous retry.                                                        *)
C14_BackoffGrows ==
  [][/\ \A k \in 0..MaxRetryCount :
          /\ RetryDelay(k) <= RetryCapSeconds
          /\ RetryDelay(k) <= RetryDelay(k + 1)
     /\ \A n \in NIds :
          (/\ Stored(n)
           /\ notifs'[n].status = "pending"
           /\ notifs'[n].retry_count = notifs[n].retry_count + 1)
            => /\ notifs'[n].scheduled_at - now = RetryDelay(notifs'[n].retry_count)
               /\ notifs'[n].scheduled_at - now <= RetryCapSeconds
               /\ HasRetried(n)
                    => /\ notifs'[n].scheduled_at - now >= RetryDelay(notifs[n].retry_count)
                       /\ notifs'[n].scheduled_at > notifs[n].scheduled_at]_vars

(* The second retry of a notification has been scheduled. *)
C14_Witness ==
  \E n \in NIds :
    /\ Stored(n)
    /\ notifs[n].status = "pending"
    /\ notifs[n].retry_count = 2
    /\ Cardinality({i \in 1..Len(nlogs[n]) : nlogs[n][i].message = "retry"}) = 2


(***************************************************************************)
(* Properties of the interviews.                                           *)
(***************************************************************************)
InterviewTerminal(row) == row.status \in {"completed", "cancelled"}

(* The status changes of the linear order and the cancellations. *)
InterviewMoves ==
  { <<"pending", "scheduled">>, <<"scheduled", "in_progress">>,
    <<"in_progress", "completed">> }
    \cup { <<s, "cancelled">> : s \in {"pending", "scheduled", "in_progress"} }

(* C19: the status of an interview changes only along pending ->           *)
(* scheduled -> in_progress -> completed, or to cancelled from a status    *)
(* that is neither completed nor cancelled; a completed or cancelled       *)
(* interview keeps its status.                                             *)
C19_InterviewStatusLinear ==
  [][\A i \in IIds :
       (/\ interviews[i] # NoInterview
        /\ interviews'[i].status # interviews[i].status)
         => <<interviews[i].status, interviews'[i].status>> \in InterviewMoves]_vars

(* A cancel_interview call of process p returns in this step. *)
CancelReturns(p) ==
  /\ ireq[p].pc = "loaded"
  /\ ireq[p].op = "cancel_interview"
  /\ ireq'[p].pc = "idle"

(* An update_workflow call of process p returns in this step. *)
UpdateReturns(p) ==
  /\ req[p].pc = "u_commit"
  /\ req'[p].pc = "idle"

(* C20: a cancel of an interview whose stored status is completed or       *)
(* cancelled leaves the row as it is and does not report success, whatever *)
(* the cancelling request loaded before; an update_workflow call never     *)
(* turns a completed workflow into a cancelled one.                        *)
C20_CancelOfTerminalIsNoop ==
  [][\A p \in Procs :
       /\ (CancelReturns(p) /\ InterviewTerminal(interviews[ireq[p].iid]))
            => (interviews' = interviews /\ ilast'.ret # "True")
       /\ (UpdateReturns(p) /\ req[p].snap # NoRow
             /\ workflows[req[p].wid].status = "completed")
            => workflows'[req[p].wid].status # "cancelled"]_vars


(***************************************************************************)
(* Properties of the background notification tasks.                        *)
(***************************************************************************)
(* A background task runs in this step. *)
TaskRuns == BagCardinality(tasks') < BagCardinality(tasks)

(* Task t is added in this step. *)
TaskAdded(t) == CopiesIn(t, tasks') > CopiesIn(t, tasks)

(* C21: a notification task is added only in the step that commits a      *)
(* transition or a scheduling (the business event is stored before any     *)
(* send is attempted); a rejected transition and a scheduling of a         *)
(* missing interview add none; and the step in which a task runs leaves    *)
(* the workflows, their state records and the interviews as they are,      *)
(* whether the send succeeds or fails.                                     *)
C21_SendNeverTouchesEvent ==
  [][/\ TaskRuns => UNCHANGED <<templates, workflows, srecords, interviews>>
     /\ \A t \in BagToSet(tasks') :
          TaskAdded(t) =>
            IF t.fn = "send_workflow_notification"
              THEN /\ last' = [op |-> "transition_state", wid |-> t.id, ret |-> "True"]
                   /\ Len(srecords'[t.id]) = Len(srecords[t.id]) + 1
              ELSE /\ ilast' = [op |-> "schedule_interview", iid |-> t.id, ret |-> "True"]
                   /\ interviews'[t.id].status = "scheduled"
     /\ \A p \in Procs :
          (req[p].pc = "t_validate" /\ req'[p].pc = "idle") => tasks' = tasks
     /\ \A p \in Procs :
          (ireq[p].pc = "loaded" /\ ireq'[p].pc = "idle" /\ ilast'.ret = "False")
            => tasks' = tasks]_vars

(* A transition and a scheduling were committed, the send of the last      *)
(* task failed, and a transition was rejected after it.                    *)
C21_Witness ==
  /\ sendlog = "Error sending email"
  /\ tasks = EmptyBag
  /\ last.op = "transition_state"
  /\ last.ret = "False"
  /\ \E w \in WIds : Exists(w) /\ workflows[w].previous_state # None
  /\ \E i \in IIds : interviews[i].status = "scheduled"


(***************************************************************************)
(* Properties of the notification templates.                               *)
(***************************************************************************)
(* C22: a render_template call that fails returns neither a rendered       *)
(* subject nor a rendered body, and the request that made it creates no    *)
(* notification.                                                           *)
C22_FailedRenderGivesNothing ==
  [][(render' # render /\ ~render'.rendered_successfully)
       => /\ render'.subject = None
          /\ render'.body = ""
          /\ notifs' = notifs]_vars


(***************************************************************************)
(* Properties of the notification log.                                     *)
(***************************************************************************)
(* The status a log entry reports: the messages of create_notification     *)
(* and of the mark_notification_* calls.                                   *)
StatusLogged(entry) ==
  CASE entry.message = "created" -> "pending"
    [] entry.message = "queued" -> "queued"
    [] entry.message = "sent" -> "sent"
    [] entry.message = "retry" -> "pending"
    [] entry.message = "permanently failed" -> "failed"
    [] OTHER -> None

(* The entries a step appends to the log of notification n. *)
Appended(n) == SubSeq(nlogs'[n], Len(nlogs[n]) + 1, Len(nlogs'[n]))

(* The status before the k-th entry of a step was written. *)
StatusBefore(n, k) ==
  IF k = 1 THEN notifs[n].status ELSE StatusLogged(Appended(n)[k - 1])

(* C23: the entries a step appends to the log of a notification are the    *)
(* status changes the notification went through in that step, in order:    *)
(* each entry reports a status different from the one before it, the last  *)
(* one reports the stored status, and a status changes only with an entry. *)
C23_LogFollowsStatus ==
  [][\A n \in NIds :
       /\ Len(nlogs'[n]) >= Len(nlogs[n])
       /\ \A k \in 1..Len(Appended(n)) :
            StatusLogged(Appended(n)[k]) # StatusBefore(n, k)
       /\ notifs'[n].status = StatusBefore(n, Len(Appended(n)) + 1)]_vars


(* C24: the log of a notification is append-only: every step keeps the     *)
(* entries already written, with their level and message, as a prefix of   *)
(* the log, also a step of update_notification or delete_notification.     *)
C24_LogAppendOnly ==
  [][\A n \in NIds :
       /\ Len(nlogs'[n]) >= Len(nlogs[n])
       /\ SubSeq(nlogs'[n], 1, Len(nlogs[n])) = nlogs[n]]_vars

(* A notification was processed and updated, and a delete of it was        *)
(* requested last.                                                         *)
C24_Witness ==
  \E n \in NIds :
    /\ nresp.op = "delete_notification"
    /\ nresp.outcome = "IntegrityError"
    /\ Len(nlogs[n]) >= 4
    /\ \E i \in 1..Len(nlogs[n]) : nlogs[n][i].message = "updated"
    /\ \E i \in 1..Len(nlogs[n]) : nlogs[n][i].message = "sent"


(***************************************************************************)
(* Properties of the bulk request.                                         *)
(***************************************************************************)
(* C25: in the response of a bulk request the counts add up to the number  *)
(* of recipients, every recipient whose own creation succeeds is queued    *)
(* whatever happened to the others, there is one stored notification per   *)
(* queued recipient and one error entry per failed recipient.              *)
C25_BulkCountsPerRecipient ==
  nresp.op = "create_bulk_notifications" =>
    /\ nresp.successfully_queued + nresp.failed = nresp.total_requested
    /\ nresp.total_requested = Len(nresp.recipients)
    /\ nresp.successfully_queued >= CountOk(nresp.recipients)
        \/ nresp.errors = <<"Template not found">>
    /\ Len(nresp.notification_ids) = nresp.successfully_queued
    /\ \A i \in 1..Len(nresp.notification_ids) : Stored(nresp.notification_ids[i])
    /\ Len(nresp.errors) = nresp.failed

(* The state names and the rules a stored template is evaluated with.     *)
RuleStates(rules) ==
  UNION { rules[i].source \cup {rules[i].dest} : i \in 1..Len(rules) }

MatchingRules(rules, action, cs) ==
  { i \in 1..Len(rules) : RuleMatches(rules[i], action, cs) }

(* C26: a template with two rules of one trigger sharing a source state   *)
(* is never stored: for every stored template, every current state and    *)
(* every trigger, at most one rule matches.                               *)
C26_StoredTemplateHasNoTies ==
  \A t \in TIds :
    templates[t].stored =>
      \A cs \in RuleStates(templates[t].rules), a \in Triggers :
        Cardinality(MatchingRules(templates[t].rules, a, cs)) <= 1

(* C27: in every state, whatever the interleaving of process_notification *)
(* runs and queue sweeps, every stored notification has                   *)
(* 0 <= retry_count <= max_retries.                                       *)
C27_RetryCountBounded ==
  \A n \in NIds :
    Stored(n) => /\ 0 <= notifs[n].retry_count
                 /\ notifs[n].retry_count <= notifs[n].max_retries

(* The state records of workflow w whose exited_at is null.                *)
OpenStateRecords(w) ==
  { i \in 1..Len(srecords[w]) : ~srecords[w][i].exited }

(* C28: between calls of create_workflow, transition_state and            *)
(* update_workflow, every workflow has exactly one open state record, and *)
(* that record names the workflow's current_state.                        *)
C28_OneOpenRecordAtCurrentState ==
  (\A p \in Procs : req[p].pc = "idle") =>
    \A w \in WIds :
      Exists(w) =>
        /\ Cardinality(OpenStateRecords(w)) = 1
        /\ \A i \in OpenStateRecords(w) :
             srecords[w][i].state_name = workflows[w].current_state

(* The preferences lookup that creates the default row of user u.         *)
DefaultRowCreated(u) == ~prefs[u].stored /\ prefs'[u].stored

(* C29: the creation of a user's default preference row by a preferences  *)
(* lookup changes nothing about delivery: a notification of that user     *)
(* processed after the lookup is suppressed exactly when it would have    *)
(* been suppressed had it been processed before the lookup.               *)
C29_LookupKeepsDeliveryOutcome ==
  [][\A n \in NIds :
       (Stored(n) /\ notifs[n].user # NoUser /\ DefaultRowCreated(notifs[n].user))
         => /\ notifs'[n] = notifs[n]
            /\ Suppressed(QueuedRow(notifs[n]))' = Suppressed(QueuedRow(notifs[n]))]_vars

====
